---- MODULE Spec2Model ----
(***************************************************************************)
(* Model of the two notebooks of qml-mooc:                                 *)
(*   coding_assignments/solutions/05_Gate-Model_Quantum_Computing.ipynb    *)
(*   qiskit_version/11_Kernel_Methods.ipynb                                *)
(*                                                                         *)
(* A circuit is the list of gates the cells append to it.  A state vector  *)
(* is kept exactly: the amplitude of basis state i is                      *)
(*        amp[i] / (den * sqrt(2)^hs)                                      *)
(* with integer numerators amp[i], an integer denominator den (the product *)
(* of the denominators of the rotations applied) and hs the number of      *)
(* Hadamard gates applied.  Basis state i holds qubit k in bit k of i      *)
(* (Qiskit's ordering: q[0] is the least significant bit).                 *)
(*                                                                         *)
(* A rotation angle theta is kept as the rational point                    *)
(*        (cos(theta/2), sin(theta/2)) = (c/r, s/r),  c*c + s*s = r*r      *)
(* which is what the gates ry and cu3 read of it.                          *)
(***************************************************************************)
EXTENDS Integers, Sequences, FiniteSets

VARIABLES pc,           \* the cell (or gate) about to run
          circuit,      \* the QuantumCircuit object: its list of gates
          state,        \* the simulator's state vector
          amplitudes,   \* notebook 05: the result of get_amplitudes
          counts,       \* the counts dictionary of the last execution
          shots,        \* shots sampled so far by the running execution
          test,         \* notebook 11: the test vector of this run
          train1,       \* notebook 11: training_set[1]
          angles,       \* notebook 11: the list angles
          outp,         \* notebook 11: the table of the statevector print cell
          result,       \* notebook 11: what postselect reported
          basis0        \* the basis state a single-section run started from

vars == <<pc, circuit, state, amplitudes, counts, shots, test, train1,
          angles, outp, result, basis0>>

----------------------------------------------------------------------------
(* Bounds of the model *)

\* Largest denominator of a test vector's rational components.
MaxDen == 13

\* Largest denominator of the components of training_set[1].
MaxTrainDen == 25

\* Shots per execution of the kernel circuit.
KernelShots == 3

\* Most samples in a counts dictionary handed to postselect on its own.
MaxSamples == 3

----------------------------------------------------------------------------
(* Arithmetic helpers *)

RECURSIVE GCD(_, _)
GCD(a, b) == IF b = 0 THEN a ELSE GCD(b, a % b)

Abs(x) == IF x < 0 THEN -x ELSE x

RECURSIVE Pow2(_)
Pow2(k) == IF k = 0 THEN 1 ELSE 2 * Pow2(k - 1)

IsSquare(n) == \E k \in 0..n : k * k = n

\* The integer square root of a perfect square.
ISqrt(n) == CHOOSE k \in 0..n : k * k = n

RECURSIVE SumOver(_, _)
SumOver(S, f) ==
    IF S = {} THEN 0
    ELSE LET x == CHOOSE y \in S : TRUE
         IN  f[x] + SumOver(S \ {x}, f)

\* A fraction n/d in lowest terms, d > 0.
Reduce(n, d) ==
    LET g == GCD(Abs(n), Abs(d))
    IN  IF g = 0 THEN <<n, d>> ELSE <<n \div g, d \div g>>

----------------------------------------------------------------------------
(* Basis states and bit strings *)

Bit(i, k) == (i \div Pow2(k)) % 2

Flip(i, k) == IF Bit(i, k) = 0 THEN i + Pow2(k) ELSE i - Pow2(k)

Digit(b) == IF b = 0 THEN "0" ELSE "1"

\* format(z, '0nb'), and the key Qiskit gives outcome z of n classical bits:
\* the characters of z in binary, most significant bit first.
Format(z, n) == [p \in 1..n |-> Digit(Bit(z, n - p))]

BitStrings(n) == {Format(z, n) : z \in 0..(Pow2(n) - 1)}

----------------------------------------------------------------------------
(* Gates *)

\* QuantumCircuit(q, c): every qubit starts in |0>.
ZeroState(n) ==
    [amp |-> [i \in 0..(Pow2(n) - 1) |-> IF i = 0 THEN 1 ELSE 0],
     den |-> 1, hs |-> 0]

\* circuit.x(q[k])
GateX(s, k) ==
    [s EXCEPT !.amp = [i \in DOMAIN s.amp |-> s.amp[Flip(i, k)]]]

\* circuit.h(q[k]): |0> -> (|0>+|1>)/sqrt 2, |1> -> (|0>-|1>)/sqrt 2
GateH(s, k) ==
    [s EXCEPT !.amp = [i \in DOMAIN s.amp |->
                          IF Bit(i, k) = 0
                          THEN s.amp[i] + s.amp[Flip(i, k)]
                          ELSE s.amp[Flip(i, k)] - s.amp[i]],
              !.hs = @ + 1]

\* A CNOT with control and target exchanged.
GateCX_Exchanged(s, c, t) ==
    [s EXCEPT !.amp = [i \in DOMAIN s.amp |->
                          IF Bit(i, t) = 1 THEN s.amp[Flip(i, c)]
                          ELSE s.amp[i]]]

\* circuit.cx(q[c], q[t])
GateCX(s, c, t) ==
    [s EXCEPT !.amp = [i \in DOMAIN s.amp |->
                          IF Bit(i, c) = 1 THEN s.amp[Flip(i, t)]
                          ELSE s.amp[i]]]

\* circuit.ccx(q[c1], q[c2], q[t])
GateCCX(s, c1, c2, t) ==
    [s EXCEPT !.amp = [i \in DOMAIN s.amp |->
                          IF Bit(i, c1) = 1 /\ Bit(i, c2) = 1
                          THEN s.amp[Flip(i, t)]
                          ELSE s.amp[i]]]

\* The rotation matrix [[cos, -sin], [sin, cos]] of half the angle th,
\* applied to qubit k of basis state i.
Rotated(s, th, k, i) ==
    IF Bit(i, k) = 0
    THEN th.c * s.amp[i] - th.s * s.amp[Flip(i, k)]
    ELSE th.s * s.amp[Flip(i, k)] + th.c * s.amp[i]

\* circuit.ry(theta, q[k])
GateRY(s, th, k) ==
    [s EXCEPT !.amp = [i \in DOMAIN s.amp |-> Rotated(s, th, k, i)],
              !.den = @ * th.r]

\* circuit.cu3(theta, 0, 0, q[c], q[t]): u3(theta, 0, 0) is ry(theta).
GateCU3(s, th, c, t) ==
    [s EXCEPT !.amp = [i \in DOMAIN s.amp |->
                          IF Bit(i, c) = 1 THEN Rotated(s, th, t, i)
                          ELSE th.r * s.amp[i]],
              !.den = @ * th.r]

\* One instruction of a circuit applied to the state vector.  A barrier
\* does nothing; a measurement is sampled by the execution, not here.
ApplyGate(s, g) ==
    CASE g.name = "x"   -> GateX(s, g.q[1])
      [] g.name = "h"   -> GateH(s, g.q[1])
      [] g.name = "cx"  -> GateCX(s, g.q[1], g.q[2])
      [] g.name = "ccx" -> GateCCX(s, g.q[1], g.q[2], g.q[3])
      [] g.name = "ry"  -> GateRY(s, g.theta, g.q[1])
      [] g.name = "cu3" -> GateCU3(s, g.theta, g.q[1], g.q[2])
      [] OTHER          -> s

NoAngle == [c |-> 1, s |-> 0, r |-> 1]

Gate(name, q) == [name |-> name, q |-> q, theta |-> NoAngle]

RotGate(name, th, q) == [name |-> name, q |-> q, theta |-> th]

\* The state vector a simulator holds after the gates of circ, from s.
RECURSIVE Simulate(_, _)
Simulate(s, circ) ==
    IF circ = <<>> THEN s
    ELSE Simulate(ApplyGate(s, Head(circ)), Tail(circ))

\* The outcomes a shot can yield: the basis states of nonzero amplitude.
Support(s) == {i \in DOMAIN s.amp : s.amp[i] # 0}

NoCounts(n) == [k \in BitStrings(n) |-> 0]

----------------------------------------------------------------------------
(* Values a variable holds before the cell that assigns it has run *)

NoCircuit == [nq |-> 0, gates |-> <<>>]

NoState == [amp |-> <<>>, den |-> 1, hs |-> 0]

NoVector == [x |-> 0, y |-> 0, r |-> 1]

NoResult == [status |-> "none"]

----------------------------------------------------------------------------
(* Notebook 05: Gate-Model Quantum Computing *)

\* The number of shots of get_counts: "We'll run the circuit a hundred times".
Shots == 100

\* Exercise 1 without its first gate.
Exercise1Circuit_NoLeadingX ==
    <<Gate("h", <<0>>), Gate("x", <<0>>)>>

\* Exercise 1: circuit.x(q[0]); circuit.h(q[0]); circuit.x(q[0])
Exercise1Circuit ==
    <<Gate("x", <<0>>), Gate("h", <<0>>), Gate("x", <<0>>)>>

\* Exercise 2 without its second CNOT.
Exercise2Circuit_OneCNOT ==
    <<Gate("h", <<0>>), Gate("cx", <<0, 1>>)>>

\* Exercise 2: circuit.h(q[0]); circuit.cx(q[0], q[1]); circuit.cx(q[1], q[2])
Exercise2Circuit ==
    <<Gate("h", <<0>>), Gate("cx", <<0, 1>>), Gate("cx", <<1, 2>>)>>

\* Exercise 3: circuit.measure(q, c) on the three qubits.
MeasureAll(n) == Gate("measure", [k \in 1..n |-> k - 1])

\* get_amplitudes(circuit): the state vector of the circuit run from |0..0>.
get_amplitudes(circ) == Simulate(ZeroState(circ.nq), circ.gates)

\* abs(c/100 - .5) < 0.1 as binary64 evaluates it: 40/100 - .5 and
\* 60/100 - .5 round to +-0.09999999999999998, so 40 and 60 pass.
InBand(c) == 40 <= c /\ c <= 60

Key000 == Format(0, 3)

Key111 == Format(7, 3)

\* The three assert statements of the exercise 3 check cell, in order; a
\* key get_counts never recorded is absent from the dictionary.
Ex3Asserts(cnt) ==
    IF cnt[Key000] = 0 THEN "KeyError"
    ELSE IF ~InBand(cnt[Key000]) THEN "AssertionError"
    ELSE IF cnt[Key111] = 0 THEN "KeyError"
    ELSE IF ~InBand(cnt[Key111]) THEN "AssertionError"
    ELSE IF cnt[Key000] + cnt[Key111] # 100 THEN "AssertionError"
    ELSE "passed"

InitGate ==
    /\ pc = "ex1"
    /\ circuit = NoCircuit
    /\ state = NoState
    /\ amplitudes = NoState
    /\ counts = <<>>
    /\ shots = 0
    /\ test = NoVector
    /\ train1 = NoVector
    /\ angles = <<>>
    /\ outp = <<>>
    /\ result = NoResult
    /\ basis0 = 0

Ex1Solution ==
    /\ pc = "ex1"
    /\ circuit' = [nq |-> 1, gates |-> Exercise1Circuit]
    /\ pc' = "ex1_check"
    /\ UNCHANGED <<state, amplitudes, counts, shots, test, train1, angles,
                   outp, result, basis0>>

Ex1Check ==
    /\ pc = "ex1_check"
    /\ amplitudes' = get_amplitudes(circuit)
    /\ pc' = "ex2"
    /\ UNCHANGED <<circuit, state, counts, shots, test, train1, angles,
                   outp, result, basis0>>

Ex2Solution ==
    /\ pc = "ex2"
    /\ circuit' = [nq |-> 3, gates |-> Exercise2Circuit]
    /\ pc' = "ex2_check"
    /\ UNCHANGED <<state, amplitudes, counts, shots, test, train1, angles,
                   outp, result, basis0>>

Ex2Check ==
    /\ pc = "ex2_check"
    /\ amplitudes' = get_amplitudes(circuit)
    /\ pc' = "ex3"
    /\ UNCHANGED <<circuit, state, counts, shots, test, train1, angles,
                   outp, result, basis0>>

Ex3Solution ==
    /\ pc = "ex3"
    /\ circuit' = [circuit EXCEPT !.gates = Append(@, MeasureAll(3))]
    /\ pc' = "ex3_run"
    /\ UNCHANGED <<state, amplitudes, counts, shots, test, train1, angles,
                   outp, result, basis0>>

\* get_counts(circuit) starts: the simulator runs the gates.
GetCountsStart ==
    /\ pc = "ex3_run"
    /\ state' = Simulate(ZeroState(circuit.nq), circuit.gates)
    /\ counts' = NoCounts(circuit.nq)
    /\ shots' = 0
    /\ pc' = "ex3_shots"
    /\ UNCHANGED <<circuit, amplitudes, test, train1, angles, outp, result,
                   basis0>>

\* One of the hundred shots: every qubit is measured, the outcome is one
\* of the basis states of nonzero amplitude.
GetCountsShot ==
    /\ pc = "ex3_shots"
    /\ shots < Shots
    /\ \E z \in Support(state) :
          counts' = [counts EXCEPT ![Format(z, circuit.nq)] = @ + 1]
    /\ shots' = shots + 1
    /\ UNCHANGED <<pc, circuit, state, amplitudes, test, train1, angles,
                   outp, result, basis0>>

GetCountsReturn ==
    /\ pc = "ex3_shots"
    /\ shots = Shots
    /\ pc' = "ex3_check"
    /\ UNCHANGED <<circuit, state, amplitudes, counts, shots, test, train1,
                   angles, outp, result, basis0>>

Ex3Check ==
    /\ pc = "ex3_check"
    /\ result' = [status |-> Ex3Asserts(counts)]
    /\ pc' = "done"
    /\ UNCHANGED <<circuit, state, amplitudes, counts, shots, test, train1,
                   angles, outp, basis0>>

NextGate ==
    \/ Ex1Solution
    \/ Ex1Check
    \/ Ex2Solution
    \/ Ex2Check
    \/ Ex3Solution
    \/ GetCountsStart
    \/ GetCountsShot
    \/ GetCountsReturn
    \/ Ex3Check

SpecGate == InitGate /\ [][NextGate]_vars

----------------------------------------------------------------------------
(* Claims about notebook 05 *)

\* C1: the exercise-1 circuit X, H, X on one qubit from |0> ends with the
\* amplitude vector [-1/sqrt(2), +1/sqrt(2)]: numerators -1 and +1 over one
\* factor sqrt(2).
C1_Ex1Amplitudes ==
    pc = "ex2" =>
        /\ DOMAIN amplitudes.amp = 0..1
        /\ amplitudes.amp[0] = -1
        /\ amplitudes.amp[1] = 1
        /\ amplitudes.den = 1
        /\ amplitudes.hs = 1

C1_Witness ==
    /\ pc = "ex2"
    /\ circuit.gates = <<Gate("x", <<0>>), Gate("h", <<0>>), Gate("x", <<0>>)>>
    /\ amplitudes.hs = 1

\* C2: the exercise-2 circuit (H q0, CNOT q0->q1, CNOT q1->q2 from |000>)
\* ends with amplitude 1/sqrt(2) on |000> and |111> and 0 on the six others.
C2_GHZAmplitudes ==
    pc = "ex3" =>
        /\ DOMAIN amplitudes.amp = 0..7
        /\ \A i \in 0..7 :
              amplitudes.amp[i] = (IF i \in {0, 7} THEN 1 ELSE 0)
        /\ amplitudes.den = 1
        /\ amplitudes.hs = 1

C2_Witness ==
    /\ pc = "ex3"
    /\ circuit.nq = 3
    /\ Len(circuit.gates) = 3
    /\ amplitudes.amp[7] # 0

\* C3: once the three qubits are measured every shot yields '000' or '111':
\* no other key is ever recorded, and over the 100 shots
\* counts['000'] + counts['111'] = 100.
C3_AllBitsAgree ==
    pc \in {"ex3_shots", "ex3_check", "done"} =>
        /\ \A k \in BitStrings(3) :
              counts[k] > 0 => (k[1] = k[2] /\ k[2] = k[3])
        /\ counts[Key000] + counts[Key111] = shots
        /\ (pc # "ex3_shots" => counts[Key000] + counts[Key111] = 100)

C3_Witness ==
    /\ pc = "done"
    /\ shots = 100
    /\ counts[Key000] > 0
    /\ counts[Key111] > 0

\* C4 (as claimed): in every run of the 100 shots both keys '000' and '111'
\* are present and each count lies strictly between 40 and 60.
C4_EveryRunSplitsEvenly ==
    pc \in {"ex3_check", "done"} =>
        \A k \in {Key000, Key111} :
            counts[k] > 0 /\ 40 < counts[k] /\ counts[k] < 60

----------------------------------------------------------------------------
(* Notebook 11: Kernel Methods -- data and angles *)

\* Python's list[i].
At(list, i) == list[i + 1]

\* The unit vectors (x/r, y/r) with y >= 0, in lowest terms, of denominator
\* at most maxden: the exactly representable stand-ins for the notebook's
\* three-digit vectors, which all have a non-negative second component.
Vectors(maxden) ==
    {v \in [x : -maxden..maxden, y : 0..maxden, r : 1..maxden] :
        /\ v.x * v.x + v.y * v.y = v.r * v.r
        /\ GCD(GCD(Abs(v.x), v.y), v.r) = 1}

\* vector[d], as a fraction.
Comp(v, d) == IF d = 0 THEN [n |-> v.x, r |-> v.r] ELSE [n |-> v.y, r |-> v.r]

\* training_set[0] = [0, 1], labels = [0, 1]
Train0 == [x |-> 0, y |-> 1, r |-> 1]

\* An angle of the other sign: cosine amplitude_0, sine negated.
get_angle_NegativeSine(amplitude_0) ==
    [c |-> amplitude_0.n,
     s |-> -ISqrt(amplitude_0.r * amplitude_0.r - amplitude_0.n * amplitude_0.n),
     r |-> amplitude_0.r]

\* get_angle(amplitude_0) = 2*arccos(amplitude_0): the angle whose half has
\* cosine amplitude_0 and the sine of an arccos, which is never negative.
get_angle(amplitude_0) ==
    [c |-> amplitude_0.n,
     s |-> ISqrt(amplitude_0.r * amplitude_0.r - amplitude_0.n * amplitude_0.n),
     r |-> amplitude_0.r]

\* The angle left as it is: the division by two forgotten.
HalfAngle_NotHalved(th) == th

\* theta/2 for theta = 2*arccos(a): by the half-angle formulas
\* cos(theta/4) = sqrt((1+a)/2), sin(theta/4) = sqrt((1-a)/2), both >= 0.
HalfAngle(th) ==
    LET c2 == ISqrt(2 * th.r * (th.r + th.c))
        s2 == ISqrt(2 * th.r * (th.r - th.c))
        g  == GCD(GCD(c2, s2), 2 * th.r)
    IN  [c |-> c2 \div g, s |-> s2 \div g, r |-> (2 * th.r) \div g]

\* -theta
NegAngle(th) == [th EXCEPT !.s = -th.s]

\* The vectors whose halved angle is again a rational point.
Halvable(v) ==
    /\ IsSquare(2 * v.r * (v.r + v.x))
    /\ IsSquare(2 * v.r * (v.r - v.x))

TestVectors == Vectors(MaxDen)

TrainVectors == {v \in Vectors(MaxTrainDen) : Halvable(v)}

----------------------------------------------------------------------------
(* Notebook 11: the circuits *)

\* The second training vector's section with both rotations of one sign.
ccry_section_SameSign(angs) ==
    <<Gate("ccx", <<0, 1, 2>>),
      RotGate("ry", At(angs, 1), <<2>>),
      Gate("ccx", <<0, 1, 2>>),
      RotGate("ry", At(angs, 1), <<2>>)>>

\* prepare_state, "Prepare the second training vector":
\* ccx; ry(-angles[1]); ccx; ry(angles[1]) on the data qubit.
ccry_section(angs) ==
    <<Gate("ccx", <<0, 1, 2>>),
      RotGate("ry", NegAngle(At(angs, 1)), <<2>>),
      Gate("ccx", <<0, 1, 2>>),
      RotGate("ry", At(angs, 1), <<2>>)>>

\* prepare_state without the flip of the ancilla.
prepare_state_NoAncillaFlip(angs) ==
    <<Gate("h", <<0>>), Gate("h", <<1>>), Gate("barrier", <<>>),
      RotGate("cu3", At(angs, 0), <<0, 2>>),
      Gate("barrier", <<>>),
      Gate("ccx", <<0, 1, 2>>), Gate("x", <<1>>), Gate("barrier", <<>>)>>
    \o ccry_section(angs)
    \o <<Gate("barrier", <<>>), Gate("cx", <<1, 3>>)>>

\* prepare_state without the flip of the index qubit.
prepare_state_NoIndexFlip(angs) ==
    <<Gate("h", <<0>>), Gate("h", <<1>>), Gate("barrier", <<>>),
      RotGate("cu3", At(angs, 0), <<0, 2>>), Gate("x", <<0>>),
      Gate("barrier", <<>>),
      Gate("ccx", <<0, 1, 2>>), Gate("barrier", <<>>)>>
    \o ccry_section(angs)
    \o <<Gate("barrier", <<>>), Gate("cx", <<1, 3>>)>>

\* prepare_state(q, c, angles): ancilla q[0], index q[1], data q[2],
\* class q[3].
prepare_state(angs) ==
    <<Gate("h", <<0>>), Gate("h", <<1>>), Gate("barrier", <<>>),
      RotGate("cu3", At(angs, 0), <<0, 2>>), Gate("x", <<0>>),
      Gate("barrier", <<>>),
      Gate("ccx", <<0, 1, 2>>), Gate("x", <<1>>), Gate("barrier", <<>>)>>
    \o ccry_section(angs)
    \o <<Gate("barrier", <<>>), Gate("cx", <<1, 3>>)>>

\* The interference step with the Hadamard on the index qubit.
interfere_WrongQubit(gates) ==
    gates \o <<Gate("h", <<1>>), Gate("barrier", <<>>), MeasureAll(4)>>

\* interfere_data_and_test_instances: circuit.h(q[0]); barrier; measure.
interfere_data_and_test_instances(gates) ==
    gates \o <<Gate("h", <<0>>), Gate("barrier", <<>>), MeasureAll(4)>>

\* val: the labels of the statevector print cell, by basis state.
val ==
    <<"Xtest x", "Xtrn0 x", "", "", "Xtest y", "Xtrn0 y", "", "",
      "", "", "Xtest x", "Xtrn1 x", "", "", "Xtest y", "Xtrn1 y">>

\* The rows of the table: key format(z, '04b'), the coefficient
\* 2 * statevector[z] (numerator n over d * sqrt(2)^hs) and val[z].
Table(s) ==
    [z \in DOMAIN s.amp |->
        [key |-> Format(z, 4), n |-> 2 * s.amp[z], d |-> s.den, hs |-> s.hs,
         label |-> At(val, z)]]

----------------------------------------------------------------------------
(* Notebook 11: postselect *)

\* The keys of a counts dictionary: the outcomes recorded at least once.
Keys(cnt) == {k \in DOMAIN cnt : cnt[k] > 0}

\* A selection on the class bit instead of the ancilla bit.
post_select_FirstChar(cnt) == {k \in Keys(cnt) : k[1] = "0"}

\* post_select: the keys with state[-1] == '0'.
post_select(cnt) == {k \in Keys(cnt) : k[Len(k)] = "0"}

\* retrieve_class(binary_class): the kept keys with
\* state[0] == str(binary_class).
retrieve_class(postselection, binary_class) ==
    {k \in postselection : k[1] = Digit(binary_class)}

\* A quotient of two counts: the fraction in lowest terms.
Quot(n, d) == Reduce(n, d)

\* postselect with a guard: nothing kept reports probabilities of 0.
postselect_Guarded(result_counts) ==
    LET total_samples        == SumOver(Keys(result_counts), result_counts)
        postselection        == post_select(result_counts)
        postselected_samples == SumOver(postselection, result_counts)
    IN  IF postselected_samples = 0
        THEN [status |-> "ok",
              ancilla_post_selection |-> <<0, 1>>,
              prob_class0 |-> <<0, 1>>,
              prob_class1 |-> <<0, 1>>]
        ELSE [status |-> "ok",
              ancilla_post_selection |-> Quot(postselected_samples, total_samples),
              prob_class0 |->
                  Quot(SumOver(retrieve_class(postselection, 0), result_counts),
                       postselected_samples),
              prob_class1 |->
                  Quot(SumOver(retrieve_class(postselection, 1), result_counts),
                       postselected_samples)]

\* postselect(result_counts): the three values it prints, or the exception
\* a zero divisor raises.
postselect(result_counts) ==
    LET total_samples        == SumOver(Keys(result_counts), result_counts)
        postselection        == post_select(result_counts)
        postselected_samples == SumOver(postselection, result_counts)
    IN  IF total_samples = 0
        THEN [status |-> "ZeroDivisionError", at |-> "ancilla_post_selection"]
        ELSE IF postselected_samples = 0
        THEN [status |-> "ZeroDivisionError", at |-> "prob_class0",
              ancilla_post_selection |-> Quot(postselected_samples, total_samples)]
        ELSE [status |-> "ok",
              ancilla_post_selection |-> Quot(postselected_samples, total_samples),
              prob_class0 |->
                  Quot(SumOver(retrieve_class(postselection, 0), result_counts),
                       postselected_samples),
              prob_class1 |->
                  Quot(SumOver(retrieve_class(postselection, 1), result_counts),
                       postselected_samples)]

----------------------------------------------------------------------------
(* Notebook 11: the cells, for one test instance *)

InitKernel ==
    /\ pc = "prepare"
    /\ test \in TestVectors
    /\ train1 \in TrainVectors
    /\ circuit = NoCircuit
    /\ state = NoState
    /\ amplitudes = NoState
    /\ counts = <<>>
    /\ shots = 0
    /\ angles = <<>>
    /\ outp = <<>>
    /\ result = NoResult
    /\ basis0 = 0

\* test_angles and training_angle = get_angle(training_set[1][0])/2, then
\* state_preparation_0 = prepare_state(q, c, angles).
PrepareCell ==
    /\ pc = "prepare"
    /\ LET angs == <<get_angle(Comp(test, 0)),
                     HalfAngle(get_angle(Comp(train1, 0)))>>
       IN  /\ angles' = angs
           /\ circuit' = [nq |-> 4, gates |-> prepare_state(angs)]
    /\ pc' = "statevector"
    /\ UNCHANGED <<state, amplitudes, counts, shots, test, train1, outp,
                   result, basis0>>

\* The statevector print cell.
StatevectorCell ==
    /\ pc = "statevector"
    /\ state' = Simulate(ZeroState(circuit.nq), circuit.gates)
    /\ outp' = Table(state')
    /\ pc' = "interfere"
    /\ UNCHANGED <<circuit, amplitudes, counts, shots, test, train1, angles,
                   result, basis0>>

\* circuit_0 = interfere_data_and_test_instances(...); job = execute(...)
InterfereCell ==
    /\ pc = "interfere"
    /\ circuit' = [circuit EXCEPT
                      !.gates = interfere_data_and_test_instances(@)]
    /\ state' = Simulate(ZeroState(circuit.nq), circuit'.gates)
    /\ counts' = NoCounts(circuit.nq)
    /\ shots' = 0
    /\ pc' = "shots"
    /\ UNCHANGED <<amplitudes, test, train1, angles, outp, result, basis0>>

\* One shot of the execution.
KernelShot ==
    /\ pc = "shots"
    /\ shots < KernelShots
    /\ \E z \in Support(state) :
          counts' = [counts EXCEPT ![Format(z, circuit.nq)] = @ + 1]
    /\ shots' = shots + 1
    /\ UNCHANGED <<pc, circuit, state, amplitudes, test, train1, angles,
                   outp, result, basis0>>

\* count = result.get_counts(circuit_0); postselect(count)
PostselectCell ==
    /\ pc = "shots"
    /\ shots = KernelShots
    /\ result' = postselect(counts)
    /\ pc' = "done"
    /\ UNCHANGED <<circuit, state, amplitudes, counts, shots, test, train1,
                   angles, outp, basis0>>

NextKernel ==
    \/ PrepareCell
    \/ StatevectorCell
    \/ InterfereCell
    \/ KernelShot
    \/ PostselectCell

SpecKernel == InitKernel /\ [][NextKernel]_vars

----------------------------------------------------------------------------
(* Notebook 11: the second training vector's section, gate by gate, from    *)
(* each basis state                                                         *)

BasisState(n, b) ==
    [amp |-> [i \in 0..(Pow2(n) - 1) |-> IF i = b THEN 1 ELSE 0],
     den |-> 1, hs |-> 0]

\* The angles ry can be given: the rational points of either sign.
SectionAngles ==
    {[c |-> v.x, s |-> sg * v.y, r |-> v.r] :
        v \in Vectors(MaxDen), sg \in {1, -1}}

InitSection ==
    /\ pc = "gate"
    /\ basis0 \in 0..15
    /\ \E th \in SectionAngles : angles = <<NoAngle, th>>
    /\ circuit = [nq |-> 4, gates |-> ccry_section(angles)]
    /\ state = BasisState(4, basis0)
    /\ amplitudes = NoState
    /\ counts = <<>>
    /\ shots = 0
    /\ test = NoVector
    /\ train1 = NoVector
    /\ outp = <<>>
    /\ result = NoResult

\* The simulator applies the next gate of the section.
SectionGate ==
    /\ pc = "gate"
    /\ circuit.gates # <<>>
    /\ state' = ApplyGate(state, Head(circuit.gates))
    /\ circuit' = [circuit EXCEPT !.gates = Tail(@)]
    /\ UNCHANGED <<pc, amplitudes, counts, shots, test, train1, angles,
                   outp, result, basis0>>

SectionEnd ==
    /\ pc = "gate"
    /\ circuit.gates = <<>>
    /\ pc' = "section_done"
    /\ UNCHANGED <<circuit, state, amplitudes, counts, shots, test, train1,
                   angles, outp, result, basis0>>

NextSection ==
    \/ SectionGate
    \/ SectionEnd

SpecSection == InitSection /\ [][NextSection]_vars

----------------------------------------------------------------------------
(* Claims about notebook 11 *)

\* The basis state with class bit c, data bit d, index bit i, ancilla bit a.
Index(c, d, i, a) == 8 * c + 4 * d + 2 * i + a

\* Training vector m; its label is m.
TrainVec(m) == IF m = 0 THEN Train0 ELSE train1

\* C5: ccx; ry(-angles[1]); ccx; ry(+angles[1]) is a double-controlled
\* rotation.  From a basis state where ancilla and index are not both 1 the
\* state comes back exactly (the rotations cancel); where both are 1 the
\* data qubit is rotated by RY(2*angles[1]), whose matrix is
\* [[cos, -sin], [sin, cos]] of angles[1] itself; ancilla, index and class
\* keep their values in all cases.
C5_Expected(z) ==
    LET th   == At(angles, 1)
        cos2 == th.c * th.c - th.s * th.s
        sin2 == 2 * th.c * th.s
    IN  IF Bit(basis0, 0) = 1 /\ Bit(basis0, 1) = 1
        THEN IF Bit(z, 0) = 1 /\ Bit(z, 1) = 1 /\ Bit(z, 3) = Bit(basis0, 3)
             THEN CASE Bit(z, 2) = 0 /\ Bit(basis0, 2) = 0 -> cos2
                    [] Bit(z, 2) = 1 /\ Bit(basis0, 2) = 0 -> sin2
                    [] Bit(z, 2) = 0 /\ Bit(basis0, 2) = 1 -> -sin2
                    [] OTHER -> cos2
             ELSE 0
        ELSE IF z = basis0 THEN At(angles, 1).r * At(angles, 1).r ELSE 0

C5_DoubleControlledRotation ==
    pc = "section_done" =>
        /\ state.hs = 0
        /\ state.den = At(angles, 1).r * At(angles, 1).r
        /\ \A z \in 0..15 : state.amp[z] = C5_Expected(z)

C5_Witness ==
    /\ pc = "section_done"
    /\ Bit(basis0, 0) = 1
    /\ Bit(basis0, 1) = 1
    /\ At(angles, 1).c # 0
    /\ At(angles, 1).s # 0
    /\ state.amp[basis0] # 0
    /\ state.amp[Flip(basis0, 2)] # 0

\* The vector component the table's layout puts at basis state (c, d, i, a):
\* nothing where the class bit differs from the index bit, the test vector
\* where the ancilla is 0, training vector i where the ancilla is 1.
C6_Component(c, d, i, a) ==
    IF c # i THEN [n |-> 0, r |-> 1]
    ELSE IF a = 0 THEN Comp(test, d)
    ELSE Comp(TrainVec(i), d)

C6_Label(c, d, i, a) ==
    CASE c # i -> ""
      [] c = i /\ a = 0 /\ d = 0 -> "Xtest x"
      [] c = i /\ a = 0 /\ d = 1 -> "Xtest y"
      [] c = i /\ a = 1 /\ i = 0 /\ d = 0 -> "Xtrn0 x"
      [] c = i /\ a = 1 /\ i = 0 /\ d = 1 -> "Xtrn0 y"
      [] c = i /\ a = 1 /\ i = 1 /\ d = 0 -> "Xtrn1 x"
      [] OTHER -> "Xtrn1 y"

C7_AmpIs(z, n, q) ==
    /\ state.hs = 3
    /\ state.amp[z] * q = n * state.den

C8_Count(cnt, S) ==
    SumOver(S, [z \in 0..15 |-> cnt[Format(z, 4)]])

C8_Kept == {z \in 0..15 : Bit(z, 0) = 0}

\* C8: postselect discards every outcome whose ancilla bit is not 0 and
\* renormalises by the kept samples: whenever at least one outcome is kept,
\* prob_class0 and prob_class1 are the kept counts with class bit 0 resp. 1
\* over the kept total, both lie in [0,1] and add up to 1, and the ancilla
\* post-selection probability is kept/total.
C8_Postselect ==
    (pc = "done" /\ C8_Count(counts, C8_Kept) > 0) =>
        LET kept  == C8_Count(counts, C8_Kept)
            total == C8_Count(counts, 0..15)
            k0    == C8_Count(counts, {z \in C8_Kept : Bit(z, 3) = 0})
            k1    == C8_Count(counts, {z \in C8_Kept : Bit(z, 3) = 1})
            p0    == result.prob_class0
            p1    == result.prob_class1
        IN  /\ result.status = "ok"
            /\ result.ancilla_post_selection = Reduce(kept, total)
            /\ p0 = Reduce(k0, kept)
            /\ p1 = Reduce(k1, kept)
            /\ 0 <= p0[1] /\ p0[1] <= p0[2]
            /\ 0 <= p1[1] /\ p1[1] <= p1[2]
            /\ p0[1] * p1[2] + p1[1] * p0[2] = p0[2] * p1[2]

C8_Witness ==
    /\ pc = "done"
    /\ result.status = "ok"
    /\ C8_Count(counts, C8_Kept) > 0
    /\ C8_Count(counts, C8_Kept) < KernelShots
    /\ C8_Count(counts, {z \in C8_Kept : Bit(z, 3) = 0}) > 0
    /\ C8_Count(counts, {z \in C8_Kept : Bit(z, 3) = 1}) > 0

\* |x~ + x_m|^2 as a fraction in lowest terms.
C9_NormSq(m) ==
    LET x == TrainVec(m)
        q == x.r * test.r
        u == test.x * x.r + x.x * test.r
        v == test.y * x.r + x.y * test.r
    IN  Reduce(u * u + v * v, q * q)

\* C9: for prepare_state followed by interfere_data_and_test_instances the
\* probability that the ancilla is measured 0 is
\* (1/(4M)) * sum over the M = 2 training vectors of |x~ + x_m|^2.
C9_AncillaZeroProbability ==
    pc \in {"shots", "done"} =>
        LET p  == SumOver({z \in 0..15 : Bit(z, 0) = 0},
                          [z \in 0..15 |-> state.amp[z] * state.amp[z]])
            n0 == C9_NormSq(0)
            n1 == C9_NormSq(1)
        IN  Reduce(p, state.den * state.den * Pow2(state.hs))
              = Reduce(n0[1] * n1[2] + n1[1] * n0[2], 4 * 2 * n0[2] * n1[2])

C9_Witness ==
    /\ pc = "shots"
    /\ shots = 0
    /\ test.x < 0
    /\ train1.x > 0 /\ train1.y > 0
    /\ \E z \in 0..15 : Bit(z, 0) = 1 /\ state.amp[z] # 0

\* The amplitude of basis state z of the prepared state is (n/q) / 2.
C10_AmpIs(z, n, q) ==
    /\ state.hs = 2
    /\ state.amp[z] * q = n * state.den

----------------------------------------------------------------------------
(* Notebook 11: get_angle and the rotation that prepares a vector, for      *)
(* vectors of either sign                                                   *)

\* The unit vectors (x/r, y/r), y of either sign.
SignedVectors ==
    {[x |-> v.x, y |-> sg * v.y, r |-> v.r] :
        v \in Vectors(MaxDen), sg \in {1, -1}}

InitAngle ==
    /\ pc = "angle"
    /\ test \in SignedVectors
    /\ basis0 \in 0..15
    /\ train1 = NoVector
    /\ circuit = NoCircuit
    /\ state = BasisState(4, basis0)
    /\ amplitudes = NoState
    /\ counts = <<>>
    /\ shots = 0
    /\ angles = <<>>
    /\ outp = <<>>
    /\ result = NoResult

\* get_angle(vector[0]): only the first component is passed.
AngleCell ==
    /\ pc = "angle"
    /\ angles' = <<get_angle(Comp(test, 0)), NoAngle>>
    /\ pc' = "rotate"
    /\ UNCHANGED <<circuit, state, amplitudes, counts, shots, test, train1,
                   outp, result, basis0>>

\* prepare_state, "Prepare the test vector":
\* circuit.cu3(angles[0], 0, 0, ancilla_qubit, data_qubit), from basis0.
RotateCell ==
    /\ pc = "rotate"
    /\ circuit' = [nq |-> 4, gates |-> <<prepare_state(angles)[4]>>]
    /\ state' = Simulate(state, circuit'.gates)
    /\ pc' = "rotated"
    /\ UNCHANGED <<amplitudes, counts, shots, test, train1, angles, outp,
                   result, basis0>>

NextAngle ==
    \/ AngleCell
    \/ RotateCell

SpecAngle == InitAngle /\ [][NextAngle]_vars

----------------------------------------------------------------------------
(* Notebook 11: postselect on any counts dictionary of four-bit keys, the   *)
(* empty one included                                                       *)

InitPostselect ==
    /\ pc = "counts"
    /\ counts = NoCounts(4)
    /\ shots = 0
    /\ circuit = NoCircuit
    /\ state = NoState
    /\ amplitudes = NoState
    /\ test = NoVector
    /\ train1 = NoVector
    /\ angles = <<>>
    /\ outp = <<>>
    /\ result = NoResult
    /\ basis0 = 0

\* The dictionary gains one sample of some outcome.
AddSample ==
    /\ pc = "counts"
    /\ shots < MaxSamples
    /\ \E z \in 0..15 : counts' = [counts EXCEPT ![Format(z, 4)] = @ + 1]
    /\ shots' = shots + 1
    /\ UNCHANGED <<pc, circuit, state, amplitudes, test, train1, angles,
                   outp, result, basis0>>

\* postselect(count)
PostselectCall ==
    /\ pc = "counts"
    /\ result' = postselect(counts)
    /\ pc' = "returned"
    /\ UNCHANGED <<circuit, state, amplitudes, counts, shots, test, train1,
                   angles, outp, basis0>>

NextPostselect ==
    \/ AddSample
    \/ PostselectCall

SpecPostselect == InitPostselect /\ [][NextPostselect]_vars

\* C12: postselect has no guard for an empty post-selection.  When no
\* recorded outcome has ancilla bit 0 the call fails with a division by
\* zero, at the ancilla ratio when the dictionary is empty and at
\* prob_class0 otherwise; when at least one outcome is kept it never fails.
C12_EmptyPostselectionFails ==
    pc = "returned" =>
        LET kept  == C8_Count(counts, C8_Kept)
            total == C8_Count(counts, 0..15)
        IN  /\ total = shots
            /\ (kept > 0 => result.status = "ok")
            /\ (kept = 0 => result.status = "ZeroDivisionError")
            /\ (total = 0 => result.at = "ancilla_post_selection")
            /\ ((kept = 0 /\ total > 0) =>
                    /\ result.at = "prob_class0"
                    /\ result.ancilla_post_selection = <<0, 1>>)

C12_Witness ==
    /\ pc = "returned"
    /\ shots = MaxSamples
    /\ C8_Count(counts, C8_Kept) = 0
    /\ result.status = "ZeroDivisionError"
    /\ result.at = "prob_class0"

====
